---- MODULE Spec2Model ----
(***************************************************************************)
(* GeodesicCalculator (src/lib/geodesic_math.py): icosahedron, per-face    *)
(* barycentric subdivision, accumulation with index offsets, and the       *)
(* rounded-key vertex merge.                                               *)
(*                                                                         *)
(* Numbers.  A coordinate triple is not modelled digit by digit.  A vector *)
(* is a record [w, s, e, n]:                                               *)
(*   w  the direction, as integer weights over the 12 icosahedron corners  *)
(*      (a set of <<corner, weight>> pairs, weight > 0).  Every point the  *)
(*      program computes is a non-negative combination of the corners of   *)
(*      one base face, and two such combinations are the same ray from the *)
(*      origin exactly when their reduced weights are equal;               *)
(*   s  the signed length (radius, -radius or 0).  Lengths are counted in  *)
(*      thousands, so that the radii at which doubles become coarse fit    *)
(*      the integers of the model checker: radius = 1 is 1000.0;           *)
(*   e  the floating-point round-off the computation left on it, in units  *)
(*      of half the rounding step of round(coord, 8).                      *)
(* round(coord, 8) keeps w and s and the rounding step e falls in, so it   *)
(* drops a round-off of 0 or 1 and keeps a round-off of 2 (a coordinate    *)
(* that straddles a rounding boundary);                                    *)
(*   n  the distance the round-off of radius * x / length leaves between   *)
(*      the norm of the stored doubles and |s|, in whole units of 1e-6.    *)
(***************************************************************************)
EXTENDS Integers, Sequences, FiniteSets, TLC

\* ---- bounds of the model
MaxRadius == 2
MaxFreq == 3
\* 1e7: a radius at which the round-off of a coordinate (about
\* radius * 2^-52) is no longer negligible against the rounding step 1e-8
BigRadius == 10000
\* 1e10: a radius at which the spacing of the doubles themselves
\* (radius * 2^-52) exceeds 1e-6
HugeRadius == 10000000
\* base faces 0..MaxStraddle may be the one whose inexact samples straddle
MaxStraddle == 1
\* inputs of _merge_duplicates taken on its own
MaxVerts == 3
MaxFaces == 1

\* round(coord, 8): the rounding step, in units of the modelled round-off
Quantum == 2

VARIABLES
    radius, frequency,      \* self.radius, self.frequency
    points, faces,          \* self.points, self.faces
    pc,                     \* position in calculate()
    ico_verts, ico_faces,   \* calculate(): the base icosahedron
    face_idx,               \* calculate(): number of base faces processed
    v0, v1, v2,             \* calculate(): corners of the last base face
    face_verts, face_faces, \* calculate(): result of the last subdivision
    offset,                 \* calculate(): offset of the last append
    all_verts, all_faces,   \* calculate(): the global buffers
    appended,               \* history: <<offset, #verts, #faces>> per append
    straddle,               \* the base face whose inexact samples straddle
                            \* a rounding boundary, or -1
    coarse                  \* whether the doubles nearest to the projected
                            \* coordinates lie more than 1e-6 off the sphere

vars == <<radius, frequency, points, faces, pc, ico_verts, ico_faces, face_idx,
          v0, v1, v2, face_verts, face_faces, offset, all_verts, all_faces,
          appended, straddle, coarse>>

\* ---- vectors

\* the tuple (0, 0, 0)
Zero == [w |-> {}, s |-> 0, e |-> 0, n |-> 0]

Sgn(x) == IF x > 0 THEN 1 ELSE IF x < 0 THEN -1 ELSE 0

\* the greatest common divisor of the weights of a non-empty direction
WeightGcd(w) ==
    LET m == CHOOSE n \in {p[2] : p \in w} : \A p \in w : p[2] <= n
    IN  CHOOSE d \in 1..m :
            /\ \A p \in w : p[2] % d = 0
            /\ \A d2 \in (d + 1)..m : \E p \in w : p[2] % d2 # 0

\* the ray of a direction: x / length does not depend on the length of x
Reduce(w) ==
    IF w = {} THEN {}
    ELSE LET g == WeightGcd(w) IN {<<p[1], p[2] \div g>> : p \in w}

\* the weight a direction puts on corner g
WeightOn(w, g) == IF \E p \in w : p[1] = g THEN (CHOOSE p \in w : p[1] = g)[2] ELSE 0

\* line 139: each of radius * x / length is rounded to a double, which
\* moves the norm by about radius * 2^-52: nothing against 1e-6 below
\* HugeRadius, more than 1e-6 from there on when the roundings add up
NormRoundOff(r) == IF r >= HugeRadius /\ coarse THEN 1 ELSE 0

\* _normalize_and_scale(v): radius * v / |v|, or (0, 0, 0) when |v| = 0.
\* The result carries no key round-off of its own here; the caller adds the
\* round-off of the computation that produced v.
normalize_and_scale(v, r) ==
    IF v.w = {} \/ v.s = 0 THEN Zero
    ELSE IF r = 0 THEN Zero
    ELSE [w |-> Reduce(v.w), s |-> r * Sgn(v.s), e |-> 0, n |-> NormRoundOff(r)]

\* tuple(round(coord, 8) for coord in v)
RoundKey(v) == [w |-> v.w, s |-> v.s, q |-> v.e \div Quantum]

\* ---- _create_icosahedron

\* the 12 raw corners, unit vectors before normalisation
RawIcoVerts == [k \in 1..12 |-> [w |-> {<<k - 1, 1>>}, s |-> 1, e |-> 0, n |-> 0]]

IcoFaces ==
    << <<1, 2, 0>>, <<2, 3, 0>>, <<3, 4, 0>>, <<4, 5, 0>>, <<5, 1, 0>>,
       <<5, 6, 1>>, <<1, 7, 2>>, <<2, 8, 3>>, <<3, 9, 4>>, <<4, 10, 5>>,
       <<1, 6, 7>>, <<2, 7, 8>>, <<3, 8, 9>>, <<4, 9, 10>>, <<5, 10, 6>>,
       <<6, 11, 7>>, <<7, 11, 8>>, <<8, 11, 9>>, <<9, 11, 10>>, <<10, 11, 6>> >>

create_icosahedron(r) ==
    << [k \in 1..12 |-> normalize_and_scale(RawIcoVerts[k], r)], IcoFaces >>

\* ---- _subdivide_triangle

\* lines 88-95: the weights (a, b, c) = (i/freq, j/freq, 1 - a - b), kept as
\* numerators over the denominator freq; (0, 0, 1) when freq = 0
Barycentric(i, j, freq) == IF freq > 0 THEN <<i, j, freq - i - j>> ELSE <<0, 0, 1>>

Denominator(freq) == IF freq > 0 THEN freq ELSE 1

\* lines 97-100: a*v0 + b*v1 + c*v2.  The corners handed in by calculate()
\* are icosahedron corners of one common signed length.
Interpolate(c0, c1, c2, abc) ==
    LET gens == {p[1] : p \in c0.w \cup c1.w \cup c2.w}
        n(g) == abc[1] * WeightOn(c0.w, g) + abc[2] * WeightOn(c1.w, g)
                  + abc[3] * WeightOn(c2.w, g)
    IN  [w |-> {<<g, n(g)>> : g \in {h \in gens : n(h) > 0}},
         s |-> IF c0.s # 0 THEN c0.s ELSE IF c1.s # 0 THEN c1.s ELSE c2.s,
         e |-> 0, n |-> 0]

IsPowerOfTwo(n) == \E k \in 0..n : 2^k = n

\* Binary floating point: i/freq is exact when freq is a power of two, and a
\* corner sample has the weights (1, 0, 0) exactly; then the sample is the
\* same float whichever base face computes it.  Any other sample is computed
\* with rounded weights, differently in each base face that shares it.
Inexact(abc, freq) ==
    /\ ~IsPowerOfTwo(Denominator(freq))
    /\ \A k \in 1..3 : abc[k] # Denominator(freq)

\* lines 88-103: the projected sample (i, j); err is the round-off this
\* call leaves on an inexact sample
GridPoint(c0, c1, c2, i, j, freq, r, err) ==
    LET abc == Barycentric(i, j, freq)
        pt  == normalize_and_scale(Interpolate(c0, c1, c2, abc), r)
    IN  IF pt = Zero THEN Zero
        ELSE [pt EXCEPT !.e = IF Inexact(abc, freq) THEN err ELSE 1]

\* lines 85, 87: for i in range(freq + 1): for j in range(freq + 1 - i)
RECURSIVE GridCells(_, _)
GridCells(i, freq) ==
    IF i > freq THEN <<>>
    ELSE [k \in 1..(freq + 1 - i) |-> <<i, k - 1>>] \o GridCells(i + 1, freq)

\* lines 105-111: one sample added to verts / vert_map / grid
AddSample(st, cell, pt) ==
    LET key == RoundKey(pt)
        new == key \notin DOMAIN st.vert_map
        vm  == IF new THEN st.vert_map @@ (key :> Len(st.verts)) ELSE st.vert_map
    IN  [verts    |-> IF new THEN Append(st.verts, pt) ELSE st.verts,
         vert_map |-> vm,
         grid     |-> st.grid @@ (cell :> vm[key])]

RECURSIVE BuildGrid(_, _, _, _, _, _, _, _, _)
BuildGrid(c0, c1, c2, freq, r, err, cells, k, st) ==
    IF k > Len(cells) THEN st
    ELSE BuildGrid(c0, c1, c2, freq, r, err, cells, k + 1,
                   AddSample(st, cells[k],
                             GridPoint(c0, c1, c2, cells[k][1], cells[k][2],
                                       freq, r, err)))

\* the first triangle with its last two corners exchanged
FirstTriangle_Swapped(grid, i, j) ==
    <<grid[<<i, j>>], grid[<<i, j + 1>>], grid[<<i + 1, j>>]>>

\* lines 118-121: the first triangle of cell (i, j)
FirstTriangle(grid, i, j) == <<grid[<<i, j>>], grid[<<i + 1, j>>], grid[<<i, j + 1>>]>>

\* the test of line 124 off by one: the last second triangle of a row is lost
HasSecondTriangle_Short(i, j, freq) == j < freq - i - 2

\* line 124: if j < freq - i - 1
HasSecondTriangle(i, j, freq) == j < freq - i - 1

\* lines 125-126: the second triangle of cell (i, j)
SecondTriangle(grid, i, j) ==
    <<grid[<<i + 1, j>>], grid[<<i + 1, j + 1>>], grid[<<i, j + 1>>]>>

\* line 116: for j in range(freq - i)
RECURSIVE RowFaces(_, _, _, _)
RowFaces(grid, i, j, freq) ==
    IF j >= freq - i THEN <<>>
    ELSE <<FirstTriangle(grid, i, j)>>
         \o (IF HasSecondTriangle(i, j, freq) THEN <<SecondTriangle(grid, i, j)>>
             ELSE <<>>)
         \o RowFaces(grid, i, j + 1, freq)

\* line 115: for i in range(freq)
RECURSIVE GridFaces(_, _, _)
GridFaces(grid, i, freq) ==
    IF i >= freq THEN <<>>
    ELSE RowFaces(grid, i, 0, freq) \o GridFaces(grid, i + 1, freq)

EmptyMap == [x \in {} |-> 0]

subdivide_triangle(c0, c1, c2, freq, r, err) ==
    LET st == BuildGrid(c0, c1, c2, freq, r, err, GridCells(0, freq), 1,
                        [verts |-> <<>>, vert_map |-> EmptyMap, grid |-> EmptyMap])
    IN  <<st.verts, GridFaces(st.grid, 0, freq)>>

\* ---- _merge_duplicates

\* a Python dict holds int keys and tuple keys side by side; an int never
\* equals a tuple
IntKey(i) == <<"int", i>>

TupleKey(k) == <<"tuple", k>>

\* lines 148-157: the first pass.  vert_map is filled under the int key i
\* and looked up under the tuple key.
FirstStep(st, i, v) ==
    LET key == TupleKey(RoundKey(v))
    IN  IF key \notin DOMAIN st.vert_map
        THEN [vert_map     |-> st.vert_map @@ (IntKey(i) :> Len(st.unique_verts)),
              unique_verts |-> Append(st.unique_verts, v)]
        ELSE [vert_map     |-> st.vert_map @@ (IntKey(i) :> st.vert_map[key]),
              unique_verts |-> st.unique_verts]

\* The loops over verts run in index order lo..hi.  The range is split in
\* halves, and the first half is evaluated before the second is entered (the
\* guard on it is always true), only to keep TLC's evaluation shallow.
RECURSIVE FirstPass(_, _, _, _)
FirstPass(verts, lo, hi, st) ==
    IF lo > hi THEN st
    ELSE IF lo = hi THEN FirstStep(st, lo - 1, verts[lo])
    ELSE LET mid  == (lo + hi) \div 2
             left == FirstPass(verts, lo, mid, st)
         IN  IF Len(left.unique_verts) >= 0 THEN FirstPass(verts, mid + 1, hi, left)
             ELSE left

\* lines 160-165: the second pass, appending to the first pass's list
SecondStep(st, v) ==
    LET key == RoundKey(v)
    IN  IF key \notin DOMAIN st.final_map
        THEN [final_map    |-> st.final_map @@ (key :> Len(st.unique_verts)),
              unique_verts |-> Append(st.unique_verts, v)]
        ELSE st

RECURSIVE SecondPass(_, _, _, _)
SecondPass(verts, lo, hi, st) ==
    IF lo > hi THEN st
    ELSE IF lo = hi THEN SecondStep(st, verts[lo])
    ELSE LET mid  == (lo + hi) \div 2
             left == SecondPass(verts, lo, mid, st)
         IN  IF Len(left.unique_verts) >= 0 THEN SecondPass(verts, mid + 1, hi, left)
             ELSE left

\* line 168 left out: the last pass appends to the earlier passes' list
RebuildStart_Keep(unique_verts) == unique_verts

\* line 168: unique_verts = []
RebuildStart(unique_verts) == <<>>

\* lines 172-174 without the membership test: every vertex is appended
IndexStep_NoDedupe(st, v) ==
    LET key == RoundKey(v)
    IN  [index_map    |-> st.index_map @@ (key :> Len(st.unique_verts)),
         unique_verts |-> Append(st.unique_verts, v)]

\* lines 172-174 keeping the last vertex of a key instead of the first
IndexStep_KeepLast(st, v) ==
    LET key == RoundKey(v)
    IN  IF key \notin DOMAIN st.index_map
        THEN [index_map    |-> st.index_map @@ (key :> Len(st.unique_verts)),
              unique_verts |-> Append(st.unique_verts, v)]
        ELSE [index_map    |-> st.index_map,
              unique_verts |-> [st.unique_verts EXCEPT ![st.index_map[key] + 1] = v]]

\* lines 170-174: the pass that decides the result
IndexStep(st, v) ==
    LET key == RoundKey(v)
    IN  IF key \notin DOMAIN st.index_map
        THEN [index_map    |-> st.index_map @@ (key :> Len(st.unique_verts)),
              unique_verts |-> Append(st.unique_verts, v)]
        ELSE st

RECURSIVE IndexPass(_, _, _, _)
IndexPass(verts, lo, hi, st) ==
    IF lo > hi THEN st
    ELSE IF lo = hi THEN IndexStep(st, verts[lo])
    ELSE LET mid  == (lo + hi) \div 2
             left == IndexPass(verts, lo, mid, st)
         IN  IF Len(left.unique_verts) >= 0 THEN IndexPass(verts, mid + 1, hi, left)
             ELSE left

\* line 185 without its third comparison
NotDegenerate_Adjacent(new_face) ==
    new_face[1] # new_face[2] /\ new_face[2] # new_face[3]

\* line 185: the face is kept when its three indices differ pairwise
NotDegenerate(new_face) ==
    new_face[1] # new_face[2] /\ new_face[2] # new_face[3] /\ new_face[1] # new_face[3]

\* lines 179-183: one face remapped through the keys of its vertices
RemapFace(verts, index_map, face) ==
    <<index_map[RoundKey(verts[face[1] + 1])],
      index_map[RoundKey(verts[face[2] + 1])],
      index_map[RoundKey(verts[face[3] + 1])]>>

\* lines 177-186: the remapped faces, in order, without the degenerate ones
RemapFaces(verts, index_map, fs) ==
    SelectSeq([k \in 1..Len(fs) |-> RemapFace(verts, index_map, fs[k])], NotDegenerate)

merge_duplicates(verts, fs) ==
    LET n  == Len(verts)
        p1 == FirstPass(verts, 1, n, [vert_map |-> EmptyMap, unique_verts |-> <<>>])
        p2 == SecondPass(verts, 1, n, [final_map |-> EmptyMap,
                                       unique_verts |-> p1.unique_verts])
        p3 == IndexPass(verts, 1, n, [index_map |-> EmptyMap,
                                      unique_verts |-> RebuildStart(p2.unique_verts)])
    IN  <<p3.unique_verts, RemapFaces(verts, p3.index_map, fs)>>

\* line 40: adsk.core.Point3D.create(p[0], p[1], p[2])
Point3D(p) == [obj |-> "Point3D", xyz |-> p]

\* line 40: the list comprehension over self.points, entries lo..hi
RECURSIVE ToPoint3D(_, _, _)
ToPoint3D(ps, lo, hi) ==
    IF lo > hi THEN <<>>
    ELSE IF lo = hi THEN <<Point3D(ps[lo])>>
    ELSE LET mid == (lo + hi) \div 2
         IN  ToPoint3D(ps, lo, mid) \o ToPoint3D(ps, mid + 1, hi)

\* ---- calculate()

\* line 34 without the offset
OffsetFaces_None(fs, off) == fs

\* line 34: (f[0] + offset, f[1] + offset, f[2] + offset) for f in face_faces
OffsetFaces(fs, off) == [k \in 1..Len(fs) |-> <<fs[k][1] + off, fs[k][2] + off, fs[k][3] + off>>]

\* the round-off base face m leaves on its inexact samples: below the
\* rounding step, or across a rounding boundary when the radius is large
\* and m is the straddling face
RoundOff(m) == IF radius >= BigRadius /\ m = straddle THEN Quantum ELSE 1

\* GeodesicCalculator(radius, frequency), calculate() not yet entered
Locals0 ==
    /\ ico_verts = <<>> /\ ico_faces = <<>> /\ face_idx = 0
    /\ v0 = Zero /\ v1 = Zero /\ v2 = Zero
    /\ face_verts = <<>> /\ face_faces = <<>> /\ offset = 0
    /\ appended = <<>>

Init ==
    /\ radius \in (-1..MaxRadius) \cup {BigRadius, HugeRadius}
    /\ frequency \in 0..MaxFreq
    /\ straddle \in -1..MaxStraddle
    /\ coarse \in BOOLEAN
    /\ points = <<>> /\ faces = <<>>
    /\ pc = "create_icosahedron"
    /\ all_verts = <<>> /\ all_faces = <<>>
    /\ Locals0

\* line 17
CreateIcosahedron ==
    /\ pc = "create_icosahedron"
    /\ LET ico == create_icosahedron(radius)
       IN  ico_verts' = ico[1] /\ ico_faces' = ico[2]
    /\ pc' = "subdivide"
    /\ UNCHANGED <<radius, frequency, points, faces, face_idx, v0, v1, v2,
                   face_verts, face_faces, offset, all_verts, all_faces,
                   appended, straddle, coarse>>

\* lines 23-34: one iteration of the loop over ico_faces
SubdivideFace ==
    /\ pc = "subdivide"
    /\ face_idx < Len(ico_faces)
    /\ LET face == ico_faces[face_idx + 1]
           c0   == ico_verts[face[1] + 1]
           c1   == ico_verts[face[2] + 1]
           c2   == ico_verts[face[3] + 1]
           sub  == subdivide_triangle(c0, c1, c2, frequency, radius, RoundOff(face_idx))
       IN  /\ v0' = c0 /\ v1' = c1 /\ v2' = c2
           /\ face_verts' = sub[1]
           /\ face_faces' = sub[2]
           /\ offset' = Len(all_verts)
           /\ all_verts' = all_verts \o sub[1]
           /\ all_faces' = all_faces \o OffsetFaces(sub[2], Len(all_verts))
           /\ appended' = Append(appended, <<Len(all_verts), Len(sub[1]), Len(sub[2])>>)
    /\ face_idx' = face_idx + 1
    /\ UNCHANGED <<radius, frequency, points, faces, pc, ico_verts, ico_faces, straddle, coarse>>

\* line 23: the loop is exhausted
LoopDone ==
    /\ pc = "subdivide"
    /\ face_idx >= Len(ico_faces)
    /\ pc' = "merge"
    /\ UNCHANGED <<radius, frequency, points, faces, ico_verts, ico_faces, face_idx,
                   v0, v1, v2, face_verts, face_faces, offset, all_verts, all_faces,
                   appended, straddle, coarse>>

\* line 37
MergeDuplicates ==
    /\ pc = "merge"
    /\ LET m == merge_duplicates(all_verts, all_faces)
       IN  points' = m[1] /\ faces' = m[2]
    /\ pc' = "convert"
    /\ UNCHANGED <<radius, frequency, ico_verts, ico_faces, face_idx, v0, v1, v2,
                   face_verts, face_faces, offset, all_verts, all_faces, appended,
                   straddle, coarse>>

\* line 40
Convert ==
    /\ pc = "convert"
    /\ points' = ToPoint3D(points, 1, Len(points))
    /\ pc' = "done"
    /\ UNCHANGED <<radius, frequency, faces, ico_verts, ico_faces, face_idx, v0, v1, v2,
                   face_verts, face_faces, offset, all_verts, all_faces, appended,
                   straddle, coarse>>

Next == CreateIcosahedron \/ SubdivideFace \/ LoopDone \/ MergeDuplicates \/ Convert

Spec == Init /\ [][Next]_vars

\* ---- _merge_duplicates on its own: any small vertex list, any face list
\* whose indices are in bounds of it

\* MaxVerts distinct points (corners 0, 1, ...), and a second float of the
\* first one that rounds to the same key
MergePoints ==
    { [w |-> {<<g, 1>>}, s |-> 1, e |-> 0, n |-> 0] : g \in 0..(MaxVerts - 1) }
        \cup { [w |-> {<<0, 1>>}, s |-> 1, e |-> 1, n |-> 0] }

SeqsUpTo(S, n) == UNION {[1..k -> S] : k \in 0..n}

CornerOf(p) == (CHOOSE x \in p.w : TRUE)[1]

\* _merge_duplicates only compares keys, so a list is taken up to renaming
\* of its points: each entry is a corner already in the list or the next
\* unused one
InOrderOfAppearance(vs) ==
    \A k \in 1..Len(vs) :
        CornerOf(vs[k]) <= Cardinality({CornerOf(vs[j]) : j \in 1..(k - 1)})

InitMerge ==
    /\ radius = 1 /\ frequency = 1 /\ straddle = -1 /\ coarse = FALSE
    /\ points = <<>> /\ faces = <<>>
    /\ pc = "merge"
    /\ all_verts \in {vs \in SeqsUpTo(MergePoints, MaxVerts) : InOrderOfAppearance(vs)}
    /\ all_faces \in SeqsUpTo((0..(Len(all_verts) - 1)) \X (0..(Len(all_verts) - 1))
                                  \X (0..(Len(all_verts) - 1)), MaxFaces)
    /\ Locals0

NextMerge == MergeDuplicates \/ Convert

SpecMerge == InitMerge /\ [][NextMerge]_vars

\* ---- properties

SamePoint(p, q) == p.w = q.w /\ p.s = q.s

\* two entries of the global vertex buffer have the same merge key exactly
\* when they are the same point of the sphere
KeysExact ==
    \A a, b \in 1..Len(all_verts) :
        (RoundKey(all_verts[a]) = RoundKey(all_verts[b]))
            <=> SamePoint(all_verts[a], all_verts[b])

\* C1: for radius > 0 and frequency f >= 1, when merge keys coincide exactly
\* for equal points of the sphere, calculate() ends with 20*f^2 faces and
\* 10*f^2 + 2 vertices.
C1_Counts ==
    (pc = "done" /\ radius > 0 /\ frequency >= 1 /\ KeysExact)
        => /\ Len(faces) = 20 * frequency * frequency
           /\ Len(points) = 10 * frequency * frequency + 2

C1_Witness ==
    /\ pc = "done" /\ radius > 0 /\ frequency = MaxFreq /\ KeysExact
    /\ Len(faces) = 20 * frequency * frequency
    /\ Len(points) = 10 * frequency * frequency + 2
    /\ Len(all_verts) > Len(points)

\* C2: a request with radius <= 0 or frequency < 1 is rejected before any
\* computation begins and leaves no mesh, not even a partial one.
C2_InvalidRejected ==
    (radius <= 0 \/ frequency < 1)
        => /\ pc = "create_icosahedron"
           /\ all_verts = <<>> /\ all_faces = <<>>
           /\ points = <<>> /\ faces = <<>>

Distinct3(f) == f[1] # f[2] /\ f[2] # f[3] /\ f[1] # f[3]

\* C3: every face returned by _merge_duplicates has three pairwise distinct
\* vertex indices.
C3_NoRepeatedIndex ==
    pc \in {"convert", "done"} => \A k \in 1..Len(faces) : Distinct3(faces[k])

\* a face with distinct input indices whose remapped indices repeat was dropped
C3_Witness ==
    /\ pc = "convert"
    /\ Len(all_faces) = 1 /\ Distinct3(all_faces[1])
    /\ faces = <<>>

\* C4: _merge_duplicates applied to its own result returns that result again.
C4_Idempotent ==
    pc = "convert" => merge_duplicates(points, faces) = <<points, faces>>

C4_Witness ==
    /\ pc = "convert"
    /\ Len(points) < Len(all_verts) /\ Len(points) >= 2
    /\ merge_duplicates(points, faces) = <<points, faces>>

\* the corners of the last subdivided base face are three distinct points
DistinctCorners == v0 # v1 /\ v1 # v2 /\ v0 # v2

\* the points a local face of the last subdivision refers to
LocalDir(f, c) == face_verts[f[c] + 1].w

LocalKey(f, c) == RoundKey(face_verts[f[c] + 1])

\* C5: for radius > 0 and frequency >= 1, every vertex of the mesh left by
\* calculate() has Euclidean norm within 1e-6 of radius.
C5_NormWithinTolerance ==
    (pc = "done" /\ radius > 0 /\ frequency >= 1)
        => \A k \in 1..Len(points) :
               /\ points[k].xyz.s = radius
               /\ points[k].xyz.n = 0

DiscoveryPos(i, j, f) == i * (f + 1) - (i * (i - 1)) \div 2 + j + 1

\* the ray of the sample with weights (i, j, f - i - j) on the three corners
SampleDir(i, j, f) ==
    Reduce({p \in {<<CornerOf(v0), i>>, <<CornerOf(v1), j>>, <<CornerOf(v2), f - i - j>>} :
               p[2] > 0})

RECURSIVE FacesBefore(_)
FacesBefore(m) == IF m <= 1 THEN 0 ELSE FacesBefore(m - 1) + appended[m - 1][3]

\* C8: after any number of base faces, every global face index is in bounds
\* of the global vertex buffer, the faces appended for a base face refer only
\* to the vertices appended for it, base faces are taken in table order, and
\* a global face denotes the same three points as its local face.
C8_Accumulation ==
    /\ \A k \in 1..Len(all_faces) : \A c \in 1..3 :
           all_faces[k][c] \in 0..(Len(all_verts) - 1)
    /\ pc \in {"subdivide", "merge"} =>
        /\ Len(appended) = face_idx
        /\ \A m \in 1..Len(appended) :
               \A k \in (FacesBefore(m) + 1)..(FacesBefore(m) + appended[m][3]) :
                   \A c \in 1..3 :
                       all_faces[k][c] \in appended[m][1]..(appended[m][1] + appended[m][2] - 1)
        /\ face_idx > 0 =>
            /\ <<v0, v1, v2>> = [c \in 1..3 |-> ico_verts[ico_faces[face_idx][c] + 1]]
            /\ appended[face_idx] = <<offset, Len(face_verts), Len(face_faces)>>
            /\ offset + Len(face_verts) = Len(all_verts)
            /\ FacesBefore(face_idx) + Len(face_faces) = Len(all_faces)
            /\ \A k \in 1..Len(face_faces) : \A c \in 1..3 :
                   LET g == all_faces[FacesBefore(face_idx) + k]
                   IN  /\ g[c] = face_faces[k][c] + offset
                       /\ all_verts[g[c] + 1] = face_verts[face_faces[k][c] + 1]

C8_Witness ==
    /\ pc = "merge" /\ face_idx = 20 /\ frequency >= 2 /\ radius > 0
    /\ offset > 0
    /\ \E k \in 1..Len(face_faces) : all_faces[Len(all_faces)] # face_faces[k]

\* the vertices with the first occurrence of their key, as positions in verts
FirstOccurrences(verts) ==
    {i \in 1..Len(verts) :
        \A j \in 1..(i - 1) : RoundKey(verts[j]) # RoundKey(verts[i])}

\* the first position in verts of the key of verts[i]
FirstIndex(verts, i) ==
    CHOOSE j \in 1..i :
        /\ RoundKey(verts[j]) = RoundKey(verts[i])
        /\ \A h \in 1..(j - 1) : RoundKey(verts[h]) # RoundKey(verts[i])

\* the output index of the key of verts[i]: the number of keys first seen
\* before it
OutputIndex(verts, i) ==
    Cardinality({j \in FirstOccurrences(verts) : j < FirstIndex(verts, i)})

ExpectedFace(verts, f) ==
    <<OutputIndex(verts, f[1] + 1), OutputIndex(verts, f[2] + 1), OutputIndex(verts, f[3] + 1)>>

\* C9: _merge_duplicates returns one vertex per distinct rounded key, in
\* order of first occurrence and being the first vertex with that key; the
\* surviving faces are the input faces in order with each index replaced by
\* the output index of its vertex's key; every returned index is in bounds.
C9_FirstOccurrence ==
    pc = "convert" =>
        /\ Len(points) = Cardinality(FirstOccurrences(all_verts))
        /\ \A i \in FirstOccurrences(all_verts) :
               points[OutputIndex(all_verts, i) + 1] = all_verts[i]
        /\ \A a, b \in 1..Len(points) :
               a # b => RoundKey(points[a]) # RoundKey(points[b])
        /\ faces = SelectSeq([k \in 1..Len(all_faces) |-> ExpectedFace(all_verts, all_faces[k])],
                             Distinct3)
        /\ \A k \in 1..Len(faces) : \A c \in 1..3 :
               faces[k][c] \in 0..(Len(points) - 1)

\* a later vertex with the key of an earlier one, not the same float, was
\* merged into it
C9_Witness ==
    /\ pc = "convert"
    /\ \E i, j \in 1..Len(all_verts) :
           /\ i < j
           /\ RoundKey(all_verts[i]) = RoundKey(all_verts[j])
           /\ all_verts[i] # all_verts[j]
           /\ \E a \in 1..Len(points) : points[a] = all_verts[i]
           /\ \A a \in 1..Len(points) : points[a] # all_verts[j]
    /\ Len(points) >= 2

\* the directed edges of the merged faces
DirectedEdges ==
    UNION { { <<faces[k][1], faces[k][2]>>, <<faces[k][2], faces[k][3]>>,
              <<faces[k][3], faces[k][1]>> } : k \in 1..Len(faces) }

\* C10: for f >= 1 the merged mesh is closed and consistently oriented:
\* every directed edge of a face occurs in exactly one face, and its reverse
\* in exactly one (other) face.
C10_ClosedOriented ==
    (pc = "done" /\ frequency >= 1)
        => /\ \A k \in 1..Len(faces) : Distinct3(faces[k])
           /\ Cardinality(DirectedEdges) = 3 * Len(faces)
           /\ \A d \in DirectedEdges : <<d[2], d[1]>> \in DirectedEdges

====
